---- MODULE Spec2Model ----
(***************************************************************************)
(* Batch image conversion / resizing of webp-image-converter.              *)
(*                                                                         *)
(* Four execution venues are modelled, one per behaviour (chosen in Init): *)
(*   "resizer"    the ImageResizer component   (handleResize)              *)
(*   "converter"  the ImageConverter component (handleConvert)             *)
(*   "convert"    the server route POST /convert                           *)
(*   "convertZip" the server route POST /convert-zip                       *)
(*                                                                         *)
(* An action is one JavaScript task: a handler runs from the event (or     *)
(* from the settlement of the promise it awaits) to its next await.        *)
(* React state written by a task is the value of the state variable after  *)
(* the task; a handler keeps reading the values of the render that created *)
(* it, which are held in the b* variables for the running batch.           *)
(*                                                                         *)
(* Spec follows the batches and the requests over the files of the pool.   *)
(* The other specifications follow one feature each over a smaller pool    *)
(* (the variable scope, fixed in Init, names the feature):                 *)
(*   SpecPure      the naming and scaling functions on their own           *)
(*   SpecClock     the clock read for the name of the ZIP download         *)
(*   SpecFaults    an exception thrown inside the img.onload callback      *)
(*   SpecSettings  the quality and scale controls moved during a batch     *)
(*   SpecDims      the resizer's name-keyed dimensions cache               *)
(*   SpecRepeat    two batches of one component, one after the other       *)
(*   SpecCache     the selections and the dimension loads on their own     *)
(*   SpecUrls      the object URLs created to decode the images            *)
(***************************************************************************)
EXTENDS Integers, Sequences, FiniteSets, TLC

\* ---------------------------------------------------------------- bounds
\* Longest list of files of one selection, drop or request.
MaxFiles == 3
\* Number of invocations of the batch handler in one behaviour.
MaxBatches == 1
\* Number of requests a server route receives in one behaviour.
MaxRequests == 1
\* Longest file name, in tokens, given to the naming functions on their own.
MaxNameLen == 5
\* Last reading of the clock, in half seconds.
MaxClock == 3
\* Number of dimension loads of handleFileSelect that run at one time.
MaxLoads == 2
\* Number of object URLs created to decode images in one behaviour.
MaxURLs == 4

\* ----------------------------------------------------------------- files
\* The files the user can pick, in the order in which a file picker, a drop
\* or a multipart form lists them.  A file is identified by its id; its name
\* is a sequence of tokens, each "." or "/" or a run of other characters.
FileOrder == <<"f1", "f2", "f3", "f4", "f5", "f6">>
Files == {FileOrder[k] : k \in 1..Len(FileOrder)}

FileName(f) ==
  CASE f = "f1" -> <<"b", ".", "png">>
    [] f = "f2" -> <<"a", ".", "png">>
    [] f = "f3" -> <<"c", ".", "gif">>
    [] f = "f4" -> <<"a", ".", "jpg">>
    [] f = "f6" -> <<"a", ".", "png">>
    [] OTHER    -> <<"d", ".", "bmp">>

FileType(f) ==
  CASE f = "f1" -> "image/png"
    [] f = "f2" -> "image/png"
    [] f = "f3" -> "image/gif"
    [] f = "f4" -> "image/jpeg"
    [] f = "f6" -> "image/png"
    [] OTHER    -> "image/bmp"

\* f3 is a GIF, which the resizer accepts and the converter and both routes
\* refuse; f5 is refused everywhere.  f6 is another image with the name of
\* f2 (a file of that name from another folder).
\* What the platform codec does with the file: f1 holds bytes that are no
\* image (img.onerror fires), f3 decodes but its canvas cannot be encoded
\* (canvas.toBlob hands null to its callback).
Decodes(f) == f # "f1"
Encodes(f) == f # "f3"

\* The lists of at most MaxFiles files a selection, a drop or a request can
\* deliver: each file at most once, in the order of FileOrder.
FileLists ==
  {SelectSeq(FileOrder, LAMBDA f : f \in S) :
     S \in {T \in SUBSET Files : Cardinality(T) <= MaxFiles}}

\* ------------------------------------------------------------ pure helpers
Null == <<>>
Some(x) == <<x>>

Separators == {".", "/"}

\* name.replace(/\.[^/.]+$/, ""): drop a final "." followed by one or more
\* characters that are neither "." nor "/".
StripExtension(name) ==
  LET cut == {i \in 1..Len(name) :
                /\ name[i] = "."
                /\ i < Len(name)
                /\ \A j \in (i + 1)..Len(name) : name[j] \notin Separators}
  IN IF cut = {} THEN name
     ELSE SubSeq(name, 1, (CHOOSE i \in cut : TRUE) - 1)

\* name.split(".").pop(): what follows the last ".", the whole name when it
\* holds no ".".
LastSegment(name) ==
  LET dots == {i \in 1..Len(name) : name[i] = "."}
  IN IF dots = {} THEN name
     ELSE LET last == CHOOSE i \in dots : \A j \in dots : j <= i
          IN SubSeq(name, last + 1, Len(name))

\* Output name of the resizer: `${originalName}.${extension}`.
ResizerFileName(name, format) ==
  StripExtension(name) \o <<".">> \o
    (IF format = "webp" THEN <<"webp">> ELSE LastSegment(name))

\* Output name of the converter and of both server routes.
WebpFileName(name) == StripExtension(name) \o <<".", "webp">>

\* allowedTypes of each venue.
ResizerTypes ==
  {"image/jpeg", "image/jpg", "image/png", "image/webp", "image/gif"}
ConverterTypes == {"image/jpeg", "image/jpg", "image/png"}

\* allowedTypes of both server routes.
ServerTypes == {"image/jpeg", "image/jpg", "image/png"}

\* A variant of InvalidFiles that reports the first offending file alone.
InvalidFiles_FirstOnly(files, allowed) ==
  LET all == SelectSeq(files, LAMBDA f : FileType(f) \notin allowed)
  IN IF Len(all) = 0 THEN all ELSE <<all[1]>>

\* files.filter(file => !allowedTypes.includes(file.type))
InvalidFiles(files, allowed) ==
  SelectSeq(files, LAMBDA f : FileType(f) \notin allowed)

Names(files) == [k \in 1..Len(files) |-> FileName(files[k])]

\* A variant of ZipFile that keeps the entry already stored under the name.
ZipFile_KeepsFirst(zip, name, data) ==
  [n \in DOMAIN zip \cup {name} |-> IF n \in DOMAIN zip THEN zip[n] ELSE data]

\* zip.file(name, data): JSZip keeps one entry per name, the last one written.
ZipFile(zip, name, data) ==
  [n \in DOMAIN zip \cup {name} |-> IF n = name THEN data ELSE zip[n]]

EmptyZip == [n \in {} |-> "f1"]

\* new Date().toISOString() as tokens, for a clock that reads t half
\* seconds after 2024-01-01T00:00:00.000Z.
TwoDigits == <<"00", "01", "02", "03", "04", "05", "06", "07", "08", "09">>
ToISOString(t) ==
  <<"2024-01-01", "T", "00", ":", "00", ":", TwoDigits[(t \div 2) + 1], ".",
    IF t % 2 = 0 THEN "000" ELSE "500", "Z">>

\* The number of characters of a token.
Chars(token) ==
  CASE token = "2024-01-01" -> 10
    [] token \in {"T", ":", ".", "-", "Z"} -> 1
    [] token \in {"000", "500"} -> 3
    [] OTHER -> 2

\* .replace(/[:.]/g, "-")
ReplaceColonsAndDots(tokens) ==
  [k \in 1..Len(tokens) |-> IF tokens[k] \in {":", "."} THEN "-" ELSE tokens[k]]

\* .slice(0, n): the tokens that lie within the first n characters.
RECURSIVE Slice(_, _)
Slice(tokens, n) ==
  IF Len(tokens) = 0 \/ Chars(tokens[1]) > n THEN <<>>
  ELSE <<tokens[1]>> \o Slice(Tail(tokens), n - Chars(tokens[1]))

\* new Date().toISOString().replace(/[:.]/g, "-").slice(0, 19)
Timestamp(t) == Slice(ReplaceColonsAndDots(ToISOString(t)), 19)

\* `${prefix}-${timestamp}.zip`
ZipFileName(prefix, timestamp) == <<prefix, "-">> \o timestamp \o <<".zip">>

\* A variant of StampTime that reads the time at which the batch started.
StampTime_AtStart(start, current) == start

\* The time new Date() reads where the archive is named: the statement runs
\* after the await of zip.generateAsync, so it reads the clock of that task
\* (current), not the one of the task that started the batch (start).
StampTime(start, current) == current

\* ((i + 1) / selectedFiles.length) * 100 as the exact fraction <<num, den>>.
Percent(done, total) == <<done * 100, total>>
Zero == <<0, 1>>

\* The empty fileDimensions object: file name -> the file whose dimensions
\* are stored under that name.
NoDimensions == [n \in {} |-> "f1"]

\* A variant of MathRound that rounds down.
MathRound_Floor(num, den, below) == num \div den

\* Math.round of a double that stands for the fraction num / den: the
\* nearest integer, the upper one when the double is exactly half-way.
\* `below` says that the double lies under the half-way value num / den.
MathRound(num, den, below) ==
  IF below THEN num \div den ELSE (2 * num + den) \div (2 * den)

\* The pairs <<x, percentage>>, for x in DimensionValues, at which
\* x * percentage / 100 is half-way between two integers and the binary64
\* product x * (percentage / 100) lies below it (percentage / 100 is not
\* exact in binary: 50 * 0.29 is 14.499999999999998).
ProductBelowHalf ==
  {<<50, 29>>, <<50, 57>>, <<150, 41>>, <<150, 57>>, <<150, 69>>}

\* calculateNewDimensions(originalWidth, originalHeight, percentage):
\* scale = percentage / 100; Math.round(original * scale) per axis.
calculateNewDimensions(originalWidth, originalHeight, percentage) ==
  [width |-> MathRound(originalWidth * percentage, 100,
                       <<originalWidth, percentage>> \in ProductBelowHalf),
   height |-> MathRound(originalHeight * percentage, 100,
                        <<originalHeight, percentage>> \in ProductBelowHalf)]

\* A string of a form field, one character per element.
Digits == <<"0", "1", "2", "3", "4", "5", "6", "7", "8", "9">>
IsDigit(c) == \E d \in 1..Len(Digits) : Digits[d] = c
DigitValue(c) == (CHOOSE d \in 1..Len(Digits) : Digits[d] = c) - 1

RECURSIVE SkipSpaces(_)
SkipSpaces(str) ==
  IF Len(str) > 0 /\ str[1] = " " THEN SkipSpaces(Tail(str)) ELSE str

\* The value of the longest prefix of decimal digits of str, read after acc.
RECURSIVE DigitsValue(_, _)
DigitsValue(str, acc) ==
  IF Len(str) > 0 /\ IsDigit(str[1])
  THEN DigitsValue(Tail(str), acc * 10 + DigitValue(str[1]))
  ELSE acc

\* parseInt(str) for a string without a "0x" prefix: leading white space is
\* skipped, a sign is read, then the longest run of decimal digits; Null
\* stands for NaN (no digit where one is expected).
ParseInt(str) ==
  LET t == SkipSpaces(str)
      signed == Len(t) > 0 /\ t[1] \in {"+", "-"}
      body == IF signed THEN Tail(t) ELSE t
  IN IF Len(body) = 0 \/ ~IsDigit(body[1]) THEN Null
     ELSE IF signed /\ t[1] = "-" THEN Some(0 - DigitsValue(body, 0))
     ELSE Some(DigitsValue(body, 0))

\* parsed || default: NaN and 0 are falsy.
OrDefault(parsed, default) ==
  IF parsed = Null \/ parsed[1] = 0 THEN default ELSE parsed[1]

\* const quality = parseInt(formData.get('quality') as string) || 80
RouteQuality(field) == OrDefault(ParseInt(field), 80)

\* formData.get("quality") as string: what a client can put in the field.
\* A request without the field gives null, which parseInt reads as "null".
QualityFields ==
  {<<"n", "u", "l", "l">>, <<>>, <<"a", "b", "c">>, <<"8", "0">>, <<"1">>,
   <<"1", "0", "0">>, <<"0">>, <<"1", "0", "1">>, <<"5", "0", "0">>,
   <<"-", "5">>, <<" ", "4", "2">>, <<"7", ".", "9">>}


\* ------------------------------------------------------------------ state
VARIABLES
  venue,          \* which component or route this behaviour exercises
  scope,          \* which part of the program this behaviour follows
  now,            \* the clock new Date() reads, in half seconds
  arg,            \* the arguments of one call of a pure function
  ret,            \* Null or Some(value that call returned)
  quality,        \* useState(90) / useState(80); const quality of a route
  resizeValue,    \* useState(90) (ImageResizer only)
  fileDimensions,      \* useState<{[key: string]: ...}>({}) (ImageResizer only)
  isLoadingDimensions, \* useState(false) (ImageResizer only)
  loads,          \* the dimension loads of handleFileSelect that are running
  objectURLs,     \* URLs of URL.createObjectURL(file) that are not revoked
  \* React state of the component (ImageResizer / ImageConverter)
  selectedFiles,  \* useState<File[]>
  downloadMode,   \* "individual" | "zip"
  outputFormat,   \* "original" | "webp" (ImageResizer only)
  inProgress,     \* isResizing / isConverting
  progress,       \* resizeProgress / conversionProgress, a fraction
  result,         \* Null or Some(BatchResult)
  error,          \* Null or Some(message)
  \* The invocation of handleResize / handleConvert that is running, or the
  \* last one that ran: its captured render values and its local variables
  pc,             \* "idle" | "item" (awaiting a transform) | "zip" (awaiting generateAsync)
                  \* | "hung" (awaiting a transform that will never settle)
  bFiles,         \* selectedFiles as captured by the handler
  bMode,          \* downloadMode as captured
  bFormat,        \* outputFormat as captured
  bQuality,       \* quality as captured
  bScale,         \* resizeValue as captured (ImageResizer only)
  startedAt,      \* the time at which the handler or the route was entered
  calls,          \* what each call of the transform was given, in order
  idx,            \* i + 1 of the for loop
  results,        \* const results = []
  successfulConversions,
  failedConversions,
  zip,            \* new JSZip(): entry name -> data
  inFlight,       \* items whose transform is started and not settled
  outcome,        \* how that invocation ended: "none" | "running" | "noop" | "result" | "error"
  downloads,      \* a.click() calls of that invocation, in order
  batches,        \* invocations so far
  \* One request to a server route
  spc,            \* "wait" | "converting" | "zip" | "responded"
  reqFiles,       \* formData.getAll("files")
  slots,          \* the array Promise.all fills: Null or Some(value) per file
  settled,        \* the order in which the conversions settled
  response,       \* Null or Some(response)
  requests        \* requests so far

clientVars ==
  <<selectedFiles, downloadMode, outputFormat, inProgress, progress, result, error>>
batchVars ==
  <<pc, bFiles, bMode, bFormat, bQuality, bScale, startedAt, calls, idx, results,
    successfulConversions,
    failedConversions, zip, inFlight, outcome, downloads, batches>>
serverVars == <<spc, reqFiles, slots, settled, response, requests>>
outerVars == <<venue, scope, now, arg, ret>>
settingVars == <<quality, resizeValue>>
dimVars == <<fileDimensions, isLoadingDimensions, loads>>
vars ==
  <<outerVars, settingVars, dimVars, objectURLs, clientVars, batchVars, serverVars>>

\* The files on offer.  The batches of the resizer are followed over the
\* files it accepts: what it does with a refused file is followed with its
\* dimensions cache, over one file that converts and the BMP.  The loads of
\* the cache on their own are followed over three images, two of one name,
\* and the object URLs over a PNG that decodes and one that does not.  The
\* other features are followed over one file that converts, the GIF (which
\* the converter refuses) and, except with the settings, the BMP.
SmallPool(part) ==
  CASE part = "batch" /\ venue = "resizer" -> {"f1", "f2", "f3", "f4"}
    [] part = "batch" -> {"f1", "f2", "f3", "f4", "f5"}
    [] part = "cache" -> {"f2", "f4", "f6"}
    [] part = "settings" -> {"f2", "f3"}
    [] part = "urls" -> {"f1", "f2"}
    [] part = "dims" /\ venue = "resizer" -> {"f2", "f5"}
    [] OTHER -> {"f2", "f3", "f5"}

\* The lists a selection, a drop or a request can deliver in a behaviour
\* that follows the given part of the program.
Pickable(part) ==
  {SelectSeq(FileOrder, LAMBDA f : f \in S) :
     S \in {T \in SUBSET SmallPool(part) : Cardinality(T) <= MaxFiles}}

Venues == {"resizer", "converter", "convert", "convertZip"}
IsClient == venue \in {"resizer", "converter"}

\* useState(90) of the resizer, useState(80) of the converter, and the
\* default of both routes.
DefaultQuality(v) == IF v = "resizer" THEN 90 ELSE 80

\* useState(90) of the resizer; the other venues do not scale.
DefaultResizeValue(v) == IF v = "resizer" THEN 90 ELSE 100

\* No call of a pure function.
NoCall ==
  [op |-> "none", name |-> <<>>, format |-> "original",
   width |-> 0, height |-> 0, percentage |-> 0]

\* The state after construction, for one part of the program, the venues
\* that part has and the calls of pure functions it makes.
InitOf(part, venues, pureCalls) ==
  /\ venue \in venues
  /\ scope = part
  /\ now = 0
  /\ arg \in pureCalls
  /\ ret = Null
  /\ quality = DefaultQuality(venue)
  /\ resizeValue = DefaultResizeValue(venue)
  /\ fileDimensions = NoDimensions
  /\ isLoadingDimensions = FALSE
  /\ loads = <<>>
  /\ objectURLs = 0
  /\ bQuality = DefaultQuality(venue)
  /\ bScale = DefaultResizeValue(venue)
  /\ startedAt = 0
  /\ calls = <<>>
  /\ selectedFiles = <<>>
  /\ downloadMode = "individual"
  /\ outputFormat = "original"
  /\ inProgress = FALSE
  /\ progress = Zero
  /\ result = Null
  /\ error = Null
  /\ pc = "idle"
  /\ bFiles = <<>>
  /\ bMode = "individual"
  /\ bFormat = "original"
  /\ idx = 0
  /\ results = <<>>
  /\ successfulConversions = 0
  /\ failedConversions = 0
  /\ zip = EmptyZip
  /\ inFlight = {}
  /\ outcome = "none"
  /\ downloads = <<>>
  /\ batches = 0
  /\ spc = "wait"
  /\ reqFiles = <<>>
  /\ slots = <<>>
  /\ settled = <<>>
  /\ response = Null
  /\ requests = 0

Init == InitOf("batch", Venues, {NoCall})

\* ------------------------------------------------- client: the working set
Message(text, names) == [message |-> text, files |-> names]

\* The dimension loads are followed in the parts "dims" and "cache" of the
\* resizer; the other parts leave the three variables of the cache at their
\* initial values (no batch reads them).
TracksDimensions == venue = "resizer" /\ scope \in {"dims", "cache", "urls"}

\* The object URLs of the images being decoded are counted in the part
\* "urls"; the other parts leave the count at zero.
TracksURLs == scope = "urls"

\* img.src = URL.createObjectURL(file), n times in one task.  The three
\* functions that decode an image keep no reference to the URL and the
\* components call URL.revokeObjectURL only for their download links.
createObjectURL(n) ==
  IF TracksURLs
  THEN /\ objectURLs + n <= MaxURLs
       /\ objectURLs' = objectURLs + n
  ELSE UNCHANGED objectURLs

\* The rest of handleFileSelect / handleDrop of the resizer, up to its first
\* await: setIsLoadingDimensions(true), an empty `dimensions` object and the
\* probe of the first file.
StartLoad(files) ==
  IF TracksDimensions
  THEN /\ Len(loads) < MaxLoads
       /\ isLoadingDimensions' = TRUE
       /\ loads' = Append(loads, [files |-> files, k |-> 1, dimensions |-> NoDimensions])
       /\ createObjectURL(1)
       /\ UNCHANGED fileDimensions
  ELSE UNCHANGED <<dimVars, objectURLs>>

\* A variant of Reject that also drops the previous result.
Reject_DropsResult(files, allowed) ==
  /\ error' = Some(Message("Unsupported file formats",
                           Names(InvalidFiles(files, allowed))))
  /\ result' = Null
  /\ UNCHANGED <<selectedFiles, progress, dimVars, objectURLs>>

\* if (invalidFiles.length > 0) { setError(...); return; }
Reject(files, allowed) ==
  /\ error' = Some(Message("Unsupported file formats",
                           Names(InvalidFiles(files, allowed))))
  /\ UNCHANGED <<selectedFiles, result, progress, dimVars, objectURLs>>

\* handleFileSelect and handleDrop of both components: reject the whole list
\* when one type is not allowed, else replace the working set.
SelectFiles(files, allowed) ==
  /\ IF Len(files) > 0
     THEN IF Len(InvalidFiles(files, allowed)) > 0
          THEN Reject(files, allowed)
          ELSE /\ selectedFiles' = files
               /\ error' = Null
               /\ result' = Null
               /\ progress' = Zero
               /\ StartLoad(files)
     ELSE UNCHANGED <<selectedFiles, result, progress, error, dimVars, objectURLs>>
  /\ UNCHANGED <<outerVars, settingVars, downloadMode, outputFormat, inProgress,
                 batchVars, serverVars>>

Resizer_handleFileSelect ==
  /\ venue = "resizer"
  /\ \E files \in Pickable(scope) : SelectFiles(files, ResizerTypes)

Resizer_handleDrop ==
  /\ venue = "resizer"
  /\ \E files \in Pickable(scope) : SelectFiles(files, ResizerTypes)

Converter_handleFileSelect ==
  /\ venue = "converter"
  /\ \E files \in Pickable(scope) : SelectFiles(files, ConverterTypes)

Converter_handleDrop ==
  /\ venue = "converter"
  /\ \E files \in Pickable(scope) : SelectFiles(files, ConverterTypes)

\* delete newDimensions[name] on a copy of the object.
Delete(object, name) == [n \in (DOMAIN object) \ {name} |-> object[n]]

\* A variant of Put that keeps the entry a name already has.
Put_KeepsFirst(object, name, dims) ==
  [n \in (DOMAIN object) \cup {name} |-> IF n \in DOMAIN object THEN object[n] ELSE dims]

\* dimensions[file.name] = dims
Put(object, name, dims) ==
  [n \in (DOMAIN object) \cup {name} |-> IF n = name THEN dims ELSE object[n]]

\* prev.filter((_, i) => i !== index)
WithoutIndex(files, index) ==
  [k \in 1..(Len(files) - 1) |-> IF k < index THEN files[k] ELSE files[k + 1]]

\* removeFile of both components; the button is rendered per listed file.
removeFile ==
  /\ IsClient
  /\ \E index \in 1..Len(selectedFiles) :
       /\ selectedFiles' = WithoutIndex(selectedFiles, index)
       /\ fileDimensions' =
            IF venue = "resizer"
            THEN Delete(fileDimensions, FileName(selectedFiles[index]))
            ELSE fileDimensions
  /\ UNCHANGED <<outerVars, settingVars, isLoadingDimensions, loads, objectURLs,
                 downloadMode, outputFormat, inProgress, progress, result, error,
                 batchVars, serverVars>>

\* clearAllFiles of both components; "Clear All" is rendered when the working
\* set is not empty.
clearAllFiles ==
  /\ IsClient
  /\ Len(selectedFiles) > 0
  /\ selectedFiles' = <<>>
  /\ result' = Null
  /\ error' = Null
  /\ progress' = Zero
  /\ fileDimensions' = IF venue = "resizer" THEN NoDimensions ELSE fileDimensions
  /\ isLoadingDimensions' = IF venue = "resizer" THEN FALSE ELSE isLoadingDimensions
  /\ UNCHANGED <<outerVars, settingVars, loads, objectURLs, downloadMode, outputFormat,
                 inProgress, batchVars, serverVars>>

\* The download-mode radio buttons, rendered when the working set is not empty.
setDownloadMode ==
  /\ IsClient
  /\ Len(selectedFiles) > 0
  /\ \E m \in {"individual", "zip"} : m # downloadMode /\ downloadMode' = m
  /\ UNCHANGED <<outerVars, settingVars, dimVars, objectURLs, selectedFiles, outputFormat, inProgress, progress, result,
                 error, batchVars, serverVars>>

\* The output-format radio buttons of the resizer.
setOutputFormat ==
  /\ venue = "resizer"
  /\ Len(selectedFiles) > 0
  /\ \E f \in {"original", "webp"} : f # outputFormat /\ outputFormat' = f
  /\ UNCHANGED <<outerVars, settingVars, dimVars, objectURLs, selectedFiles, downloadMode, inProgress, progress, result,
                 error, batchVars, serverVars>>

\* -------------------------------------------------- client: the transforms
\* resizeImage(file): getImageDimensions and the second decode reject with
\* "Failed to load image"; a null blob rejects with "Failed to resize image".
resizeImage(f) ==
  IF ~Decodes(f) THEN [ok |-> FALSE, error |-> "Failed to load image"]
  ELSE IF ~Encodes(f) THEN [ok |-> FALSE, error |-> "Failed to resize image"]
  ELSE [ok |-> TRUE, error |-> ""]

\* convertToWebP(file)
convertToWebP(f) ==
  IF ~Decodes(f) THEN [ok |-> FALSE, error |-> "Failed to load image"]
  ELSE IF ~Encodes(f) THEN [ok |-> FALSE, error |-> "Failed to convert to WebP"]
  ELSE [ok |-> TRUE, error |-> ""]

\* ------------------------------------------------------ client: the batch
\* A variant of ItemResult whose catch branch records the message alone.
ItemResult_Unnamed(f, tr, fileName) ==
  IF tr.ok
  THEN [originalName |-> FileName(f), fileName |-> fileName]
  ELSE [originalName |-> <<>>, error |-> tr.error]

\* The ItemResult pushed for file f: the try branch or the catch branch.
ItemResult(f, tr, fileName) ==
  IF tr.ok
  THEN [originalName |-> FileName(f), fileName |-> fileName]
  ELSE [originalName |-> FileName(f), error |-> tr.error]

IsFailure(r) == "error" \in DOMAIN r
IsSuccess(r) == ~IsFailure(r)

\* results.push(...)
Push(list, r) == Append(list, r)

\* successfulConversions++ at the end of the try branch.
CountSuccess(tr, n) == IF tr.ok THEN n + 1 ELSE n

\* A variant of CountFailure whose catch branch does not count.
CountFailure_Dropped(tr, n) == n

\* failedConversions++ in the catch branch.
CountFailure(tr, n) == IF tr.ok THEN n ELSE n + 1

\* A variant of Started that starts every transform at once.
Started_All(files) == 1..Len(files)

\* The items whose transform is running when the handler first suspends: the
\* for loop awaits each transform before it starts the next.
Started(files) == {1}

\* The items whose transform is running once item i has settled and the loop
\* has gone round.
StartedAfter(running, i, total) ==
  (running \ {i}) \cup (IF i < total THEN {i + 1} ELSE {})

FileDownload(name, f) == [kind |-> "file", name |-> name, data |-> f]
ZipDownload(name, entries) == [kind |-> "zip", name |-> name, entries |-> entries]

\* A variant of ItemDownloads that clicks before the transform's outcome is known.
ItemDownloads_Always(list, tr, mode, fileName, f) ==
  IF mode = "individual" THEN Append(list, FileDownload(fileName, f)) ELSE list

\* A variant of ItemDownloads that clicks in both download modes.
ItemDownloads_BothModes(list, tr, mode, fileName, f) ==
  IF tr.ok THEN Append(list, FileDownload(fileName, f)) ELSE list

\* The a.click() of the individual branch: one per item whose transform
\* succeeded, before its result is pushed.
ItemDownloads(list, tr, mode, fileName, f) ==
  IF tr.ok /\ mode = "individual" THEN Append(list, FileDownload(fileName, f)) ELSE list

\* The zip.file(fileName, blob) of the zip branch.
ItemZip(z, tr, mode, fileName, f) ==
  IF tr.ok /\ mode = "zip" THEN ZipFile(z, fileName, f) ELSE z

\* A variant of TransformArgs that reads the settings of the latest render.
TransformArgs_Live(f, q, v, o) ==
  [file |-> f, quality |-> quality, scale |-> resizeValue, format |-> outputFormat]

\* What one call of resizeImage / convertToWebP works with: the file it is
\* given and the quality, resizeValue and outputFormat of the render that
\* created the running handler (q, v and o).
TransformArgs(f, q, v, o) ==
  [file |-> f, quality |-> q, scale |-> v, format |-> o]

\* The object handed to setResult.
BatchResult(list, files, s, f) ==
  [success |-> TRUE, results |-> list, totalFiles |-> Len(files),
   successfulConversions |-> s, failedConversions |-> f]

\* A variant of EmptyReturn without the early return: the loop runs zero
\* times and the handler goes on to publish a result for no file.
EmptyReturn_Publishes ==
  /\ outcome' = "result"
  /\ pc' = "idle"
  /\ idx' = 0
  /\ inFlight' = {}
  /\ error' = Null
  /\ result' = Some(BatchResult(<<>>, selectedFiles, 0, 0))
  /\ UNCHANGED <<inProgress, progress>>

\* if (selectedFiles.length === 0) return;
EmptyReturn ==
  /\ outcome' = "noop"
  /\ pc' = "idle"
  /\ idx' = 0
  /\ inFlight' = {}
  /\ UNCHANGED <<inProgress, error, progress, result>>

\* The invocations of the batch handler one behaviour makes: one more where
\* the batches that follow one another are followed.
BatchLimit == IF scope = "repeat" THEN MaxBatches + 1 ELSE MaxBatches

\* A variant of ButtonEnabled for a button that is never disabled.
ButtonEnabled_Always == TRUE

\* disabled={isResizing} / disabled={isConverting} of the Resize / Convert
\* button, the one caller of the handler.
ButtonEnabled == ~inProgress

\* handleResize / handleConvert from the click to the first await.
Invoke ==
  /\ ButtonEnabled
  /\ batches < BatchLimit
  /\ batches' = batches + 1
  /\ results' = <<>>
  /\ successfulConversions' = 0
  /\ failedConversions' = 0
  /\ zip' = EmptyZip
  /\ downloads' = <<>>
  /\ bFiles' = selectedFiles
  /\ bMode' = downloadMode
  /\ bFormat' = outputFormat
  /\ bQuality' = quality
  /\ bScale' = resizeValue
  /\ startedAt' = now
  /\ calls' = IF Len(selectedFiles) = 0 THEN <<>>
              ELSE <<TransformArgs(selectedFiles[1], quality, resizeValue, outputFormat)>>
  /\ IF Len(selectedFiles) = 0
     THEN EmptyReturn
     ELSE /\ inProgress' = TRUE
          /\ error' = Null
          /\ progress' = Zero
          /\ outcome' = "running"
          /\ pc' = "item"
          /\ idx' = 1
          /\ inFlight' = Started(selectedFiles)
          /\ UNCHANGED result
  /\ createObjectURL(IF Len(selectedFiles) = 0 THEN 0 ELSE 1)
  /\ UNCHANGED <<outerVars, settingVars, dimVars, selectedFiles, downloadMode, outputFormat,
                 serverVars>>

\* A variant of Finally that leaves the progress counter as it is.
Finally_KeepsProgress ==
  /\ inProgress' = FALSE
  /\ progress' = progress

\* A variant of Finally that leaves the in-progress flag set.
Finally_KeepsFlag ==
  /\ inProgress' = inProgress
  /\ progress' = Zero

\* The finally block.
Finally ==
  /\ inProgress' = FALSE
  /\ progress' = Zero

\* The object URLs a transform creates after its call and before it
\* settles: resizeImage, once its getImageDimensions has resolved, loads the
\* file a second time through a second URL; convertToWebP has only the URL
\* of its call.
LoadURLs(f) == IF venue = "resizer" /\ Decodes(f) THEN 1 ELSE 0

\* The handler from the settlement of the transform of item idx to its next
\* await, or to its end when that was the last item of the individual branch.
\* The call of a transform creates one object URL (resizeImage through
\* getImageDimensions).
AfterItem(tr, fileName) ==
  LET f == bFiles[idx]
      total == Len(bFiles)
      list == Push(results, ItemResult(f, tr, fileName))
      s == CountSuccess(tr, successfulConversions)
      n == CountFailure(tr, failedConversions)
  IN /\ pc = "item"
     /\ results' = list
     /\ successfulConversions' = s
     /\ failedConversions' = n
     /\ zip' = ItemZip(zip, tr, bMode, fileName, f)
     /\ downloads' = ItemDownloads(downloads, tr, bMode, fileName, f)
     /\ inFlight' = StartedAfter(inFlight, idx, total)
     /\ calls' = IF idx < total
                 THEN Append(calls, TransformArgs(bFiles[idx + 1], bQuality, bScale, bFormat))
                 ELSE calls
     /\ IF idx < total
        THEN /\ idx' = idx + 1
             /\ progress' = Percent(idx, total)
             /\ UNCHANGED <<pc, outcome, inProgress, result>>
        ELSE IF bMode = "zip"
        THEN /\ pc' = "zip"
             /\ progress' = Percent(idx, total)
             /\ UNCHANGED <<idx, outcome, inProgress, result>>
        ELSE /\ pc' = "idle"
             /\ outcome' = "result"
             /\ result' = Some(BatchResult(list, bFiles, s, n))
             /\ Finally
             /\ UNCHANGED idx
     /\ createObjectURL(LoadURLs(f) + (IF idx < total THEN 1 ELSE 0))
     /\ UNCHANGED <<outerVars, settingVars, dimVars, selectedFiles, downloadMode, outputFormat, error,
                    bFiles, bMode, bFormat, bQuality, bScale, startedAt, batches,
                    serverVars>>

\* The handler from the settlement of zip.generateAsync to its end: the
\* archive is downloaded and the result set, or the rejection reaches the
\* outer catch.
AfterZip(zipName) ==
  /\ pc = "zip"
  /\ pc' = "idle"
  /\ \/ /\ downloads' =
             Append(downloads,
                    ZipDownload(ZipFileName(zipName, Timestamp(StampTime(startedAt, now))),
                                zip))
        /\ result' = Some(BatchResult(results, bFiles, successfulConversions,
                                      failedConversions))
        /\ outcome' = "result"
        /\ UNCHANGED error
     \/ /\ error' = Some(Message("generateAsync rejected", <<>>))
        /\ outcome' = "error"
        /\ UNCHANGED <<downloads, result>>
  /\ Finally
  /\ UNCHANGED <<outerVars, settingVars, dimVars, objectURLs, selectedFiles, downloadMode, outputFormat, bFiles, bMode,
                 bFormat, bQuality, bScale, startedAt, calls, idx, results,
                 successfulConversions, failedConversions, zip, inFlight, batches,
                 serverVars>>

handleResize ==
  /\ venue = "resizer"
  /\ Invoke

handleResize_item ==
  /\ venue = "resizer"
  /\ pc = "item"
  /\ AfterItem(resizeImage(bFiles[idx]), ResizerFileName(FileName(bFiles[idx]), bFormat))

handleResize_zip ==
  /\ venue = "resizer"
  /\ AfterZip("resized-images")

handleConvert ==
  /\ venue = "converter"
  /\ Invoke

handleConvert_item ==
  /\ venue = "converter"
  /\ pc = "item"
  /\ AfterItem(convertToWebP(bFiles[idx]), WebpFileName(FileName(bFiles[idx])))

handleConvert_zip ==
  /\ venue = "converter"
  /\ AfterZip("webp-conversion")

ClientNext ==
  \/ Resizer_handleFileSelect
  \/ Resizer_handleDrop
  \/ Converter_handleFileSelect
  \/ Converter_handleDrop
  \/ removeFile
  \/ clearAllFiles
  \/ setDownloadMode
  \/ setOutputFormat
  \/ handleResize
  \/ handleResize_item
  \/ handleResize_zip
  \/ handleConvert
  \/ handleConvert_item
  \/ handleConvert_zip

\* ---------------------------------------------------------- server routes
\* sharp(buffer).webp({ quality }) throws unless quality is an integer
\* between 1 and 100.
SharpAccepts(q) == q \in 1..100

\* The value the async callback of files.map returns for file f converted
\* with quality q: sharp rejects a quality it does not accept, bytes that
\* are no image and images it cannot encode as WebP.
Converted(f, q) ==
  IF SharpAccepts(q) /\ Decodes(f) /\ Encodes(f)
  THEN [originalName |-> FileName(f), fileName |-> WebpFileName(FileName(f))]
  ELSE [originalName |-> FileName(f),
        error |-> IF ~SharpAccepts(q) THEN "Expected integer between 1 and 100 for quality"
                  ELSE IF Decodes(f) THEN "Processed image is too large for the WebP format"
                  ELSE "Input buffer contains unsupported image format"]

\* r.error as a condition.
HasError(r) == "error" \in DOMAIN r /\ r.error # ""

\* A variant of Fulfil that stores the values in the order of settlement.
Fulfil_InSettlementOrder(array, i, value) ==
  LET free == {k \in 1..Len(array) : array[k] = Null}
      first == CHOOSE k \in free : \A j \in free : k <= j
  IN [array EXCEPT ![first] = Some(value)]

\* Promise.all: the value of the i-th promise goes to position i of the array.
Fulfil(array, i, value) == [array EXCEPT ![i] = Some(value)]

\* The array Promise.all resolves with, once every slot is filled.
Values(array) == [k \in 1..Len(array) |-> array[k][1]]

\* results.filter(r => !r.error).length
CountWithoutError(list) == Cardinality({k \in 1..Len(list) : ~HasError(list[k])})

\* results.filter(r => r.error).length
CountWithError(list) == Cardinality({k \in 1..Len(list) : HasError(list[k])})

\* The items whose conversion is running when the route first suspends:
\* files.map(async ...) starts one conversion per file.
Mapped(files) == 1..Len(files)

BadRequest(text, names) ==
  [status |-> 400, kind |-> "error", error |-> Message(text, names)]
ServerError(text) ==
  [status |-> 500, kind |-> "error", error |-> Message(text, <<>>)]
JsonResponse(list, files) ==
  [status |-> 200, kind |-> "json", success |-> TRUE, results |-> list,
   totalFiles |-> Len(files),
   successfulConversions |-> CountWithoutError(list),
   failedConversions |-> CountWithError(list)]
ZipResponse(entries, fileName) ==
  [status |-> 200, kind |-> "zip", entries |-> entries, fileName |-> fileName]

\* A route from the request to its first await on the conversions, or to its
\* response when the request is rejected: formData() may reject (outer catch).
Receive(files, parses, field) ==
  /\ spc = "wait"
  /\ requests < MaxRequests
  /\ requests' = requests + 1
  /\ reqFiles' = files
  /\ zip' = EmptyZip
  /\ settled' = <<>>
  /\ startedAt' = now
  /\ quality' = IF parses THEN RouteQuality(field) ELSE quality
  /\ IF ~parses
     THEN /\ response' = Some(ServerError("formData rejected"))
          /\ spc' = "responded"
          /\ slots' = <<>>
          /\ inFlight' = {}
          /\ calls' = <<>>
     ELSE IF Len(files) = 0
     THEN /\ response' = Some(BadRequest("Files not found", <<>>))
          /\ spc' = "responded"
          /\ slots' = <<>>
          /\ inFlight' = {}
          /\ calls' = <<>>
     ELSE IF Len(InvalidFiles(files, ServerTypes)) > 0
     THEN /\ response' = Some(BadRequest("Unsupported file formats",
                                         Names(InvalidFiles(files, ServerTypes))))
          /\ spc' = "responded"
          /\ slots' = <<>>
          /\ inFlight' = {}
          /\ calls' = <<>>
     ELSE /\ response' = Null
          /\ spc' = "converting"
          /\ slots' = [k \in 1..Len(files) |-> Null]
          /\ inFlight' = Mapped(files)
          /\ calls' = [k \in 1..Len(files) |->
                        TransformArgs(files[k], RouteQuality(field), resizeValue, "webp")]
  /\ UNCHANGED <<outerVars, resizeValue, dimVars, objectURLs, clientVars, pc, bFiles, bMode,
                 bFormat, bQuality, bScale, idx, results, successfulConversions,
                 failedConversions, outcome, downloads, batches>>

\* POST /convert
POST_convert ==
  /\ venue = "convert"
  /\ \E files \in Pickable(scope), parses \in BOOLEAN, field \in QualityFields :
       Receive(files, parses, field)

\* POST /convert from the settlement of one conversion; the settlement of the
\* last one resolves Promise.all and the route responds.
POST_convert_settle ==
  /\ venue = "convert"
  /\ spc = "converting"
  /\ \E i \in inFlight :
       LET array == Fulfil(slots, i, Converted(reqFiles[i], quality))
       IN /\ slots' = array
          /\ settled' = Append(settled, i)
          /\ inFlight' = inFlight \ {i}
          /\ IF inFlight = {i}
             THEN /\ response' = Some(JsonResponse(Values(array), reqFiles))
                  /\ spc' = "responded"
             ELSE UNCHANGED <<response, spc>>
  /\ UNCHANGED <<outerVars, settingVars, dimVars, objectURLs, clientVars, pc, bFiles, bMode, bFormat, bQuality, bScale, startedAt,
                 calls, idx, results,
                 successfulConversions, failedConversions, zip, outcome, downloads,
                 batches, reqFiles, requests>>

\* A variant of ZipEntry that writes an entry whatever the conversion gave.
ZipEntry_Always(z, value, f) ==
  ZipFile(z, WebpFileName(value.originalName), f)

\* The zip.file(fileName, webpBuffer) of the try branch of /convert-zip: a
\* conversion that threw reaches the catch branch and writes nothing.
ZipEntry(z, value, f) ==
  IF HasError(value) THEN z ELSE ZipFile(z, value.fileName, f)

\* POST /convert-zip
POST_convertZip ==
  /\ venue = "convertZip"
  /\ \E files \in Pickable(scope), parses \in BOOLEAN, field \in QualityFields :
       Receive(files, parses, field)

\* POST /convert-zip from the settlement of one conversion: a converted file
\* is written to the archive when its conversion settles.
POST_convertZip_settle ==
  /\ venue = "convertZip"
  /\ spc = "converting"
  /\ \E i \in inFlight :
       LET value == Converted(reqFiles[i], quality)
       IN /\ slots' = Fulfil(slots, i, value)
          /\ settled' = Append(settled, i)
          /\ zip' = ZipEntry(zip, value, reqFiles[i])
          /\ inFlight' = inFlight \ {i}
          /\ spc' = IF inFlight = {i} THEN "zip" ELSE spc
  /\ UNCHANGED <<outerVars, settingVars, dimVars, objectURLs, clientVars, pc, bFiles, bMode, bFormat, bQuality, bScale, startedAt,
                 calls, idx, results,
                 successfulConversions, failedConversions, outcome, downloads,
                 batches, reqFiles, response, requests>>

\* POST /convert-zip from the settlement of zip.generateAsync to the response.
POST_convertZip_zip ==
  /\ venue = "convertZip"
  /\ spc = "zip"
  /\ spc' = "responded"
  /\ \/ response' =
          Some(ZipResponse(zip, ZipFileName("webp-conversion",
                                            Timestamp(StampTime(startedAt, now)))))
     \/ response' = Some(ServerError("generateAsync rejected"))
  /\ UNCHANGED <<outerVars, settingVars, dimVars, objectURLs, clientVars, batchVars, reqFiles, slots, settled, requests>>

ServerNext ==
  \/ POST_convert
  \/ POST_convert_settle
  \/ POST_convertZip
  \/ POST_convertZip_settle
  \/ POST_convertZip_zip

Next == ClientNext \/ ServerNext

\* ------------------------------------------- the pure functions on their own
\* File names of at most MaxNameLen tokens: runs of ordinary characters
\* ("a", "png") and dots, so names without a dot, with several dots, with a
\* leading and with a trailing dot.
NameTokens == {"a", "png", "."}
FileNames == UNION {[1..n -> NameTokens] : n \in 1..MaxNameLen}

\* Widths and heights an image can have, and what the range input of the
\* resize percentage can deliver (min 1, max 100).
DimensionValues == {1, 50, 150, 800, 1000}
PercentageValues == 1..100

PureCalls ==
  {[NoCall EXCEPT !.op = "fileName", !.name = n, !.format = f] :
     n \in FileNames, f \in {"original", "webp"}}
  \cup
  {[NoCall EXCEPT !.op = "calculateNewDimensions", !.width = w, !.height = h,
                  !.percentage = p] :
     w \in DimensionValues, h \in DimensionValues, p \in PercentageValues}

InitPure == InitOf("pure", Venues, PureCalls)

\* The venue computes the output name of a file called arg.name.
computeFileName ==
  /\ arg.op = "fileName"
  /\ ret = Null
  /\ ret' = Some(IF venue = "resizer" THEN ResizerFileName(arg.name, arg.format)
                 ELSE WebpFileName(arg.name))
  /\ UNCHANGED <<venue, scope, now, arg, settingVars, dimVars, objectURLs, clientVars, batchVars,
                 serverVars>>

\* resizeImage computes the size of the canvas.
computeNewDimensions ==
  /\ venue = "resizer"
  /\ arg.op = "calculateNewDimensions"
  /\ ret = Null
  /\ ret' = Some(calculateNewDimensions(arg.width, arg.height, arg.percentage))
  /\ UNCHANGED <<venue, scope, now, arg, settingVars, dimVars, objectURLs, clientVars, batchVars,
                 serverVars>>

NextPure == computeFileName \/ computeNewDimensions
SpecPure == InitPure /\ [][NextPure]_vars

\* ------------------------------------------------- the clock and the archive
\* Time passes: half a second.
Tick ==
  /\ now < MaxClock
  /\ now' = now + 1
  /\ UNCHANGED <<venue, scope, arg, ret, settingVars, dimVars, objectURLs, clientVars, batchVars,
                 serverVars>>

InitClock == InitOf("clock", {"resizer", "converter", "convertZip"}, {NoCall})

NextClock ==
  \/ ClientNext
  \/ POST_convertZip
  \/ POST_convertZip_settle
  \/ POST_convertZip_zip
  \/ Tick

SpecClock == InitClock /\ [][NextClock]_vars

\* ------------------------------------------- a callback of resizeImage throws
\* img.onload of resizeImage runs as an event handler, outside the try block
\* of the promise executor: when canvas.getContext("2d") has returned null,
\* `ctx!.imageSmoothingEnabled = true` throws a TypeError there.  Nothing
\* catches it, neither resolve nor reject is called, and the await of that
\* item in handleResize never returns.
resizeImage_onloadThrows ==
  /\ venue = "resizer"
  /\ pc = "item"
  /\ Decodes(bFiles[idx])
  /\ pc' = "hung"
  /\ UNCHANGED <<outerVars, settingVars, dimVars, objectURLs, clientVars, bFiles, bMode, bFormat,
                 bQuality, bScale, startedAt, calls, idx, results,
                 successfulConversions, failedConversions, zip, inFlight, outcome,
                 downloads, batches, serverVars>>

InitFaults == InitOf("faults", {"resizer", "converter"}, {NoCall})
NextFaults == ClientNext \/ resizeImage_onloadThrows
SpecFaults == InitFaults /\ [][NextFaults]_vars

\* ------------------------------------------------------- the range inputs
\* e.target.value of a range input with min 1 and max 100: the two ends.
SliderValues == {<<"1">>, <<"1", "0", "0">>}

\* onChange of the "Resize Percentage" input: setResizeValue(parseInt(...)).
setResizeValue ==
  /\ venue = "resizer"
  /\ Len(selectedFiles) > 0
  /\ \E value \in SliderValues :
       /\ ParseInt(value)[1] # resizeValue
       /\ resizeValue' = ParseInt(value)[1]
  /\ UNCHANGED <<outerVars, quality, dimVars, objectURLs, clientVars, batchVars, serverVars>>

\* onChange of the quality input: setQuality(parseInt(...)).  The resizer
\* renders the input when the output format is webp.
setQuality ==
  /\ IsClient
  /\ Len(selectedFiles) > 0
  /\ venue = "resizer" => outputFormat = "webp"
  /\ \E value \in SliderValues :
       /\ ParseInt(value)[1] # quality
       /\ quality' = ParseInt(value)[1]
  /\ UNCHANGED <<outerVars, resizeValue, dimVars, objectURLs, clientVars, batchVars, serverVars>>

InitSettings == InitOf("settings", {"resizer", "converter"}, {NoCall})
NextSettings == ClientNext \/ setResizeValue \/ setQuality
SpecSettings == InitSettings /\ [][NextSettings]_vars

\* ------------------------------------------- batches that follow one another
InitRepeat == InitOf("repeat", {"resizer", "converter"}, {NoCall})
NextRepeat == ClientNext
SpecRepeat == InitRepeat /\ [][NextRepeat]_vars

\* ------------------------------------------------- the dimensions cache
\* loads without its j-th element.
WithoutLoad(j) ==
  [n \in 1..(Len(loads) - 1) |-> IF n < j THEN loads[n] ELSE loads[n + 1]]

\* handleFileSelect / handleDrop of the resizer from the settlement of the
\* probe of one file to the next await, or to its end: the dimensions are
\* stored under the name of the file, a failed probe is logged, and after
\* the last file the object replaces the cache and the loading flag is
\* cleared.
handleFileSelect_dimensions ==
  /\ venue = "resizer"
  /\ \E j \in 1..Len(loads) :
       LET load == loads[j]
           file == load.files[load.k]
           dimensions == IF Decodes(file)
                         THEN Put(load.dimensions, FileName(file), file)
                         ELSE load.dimensions
       IN IF load.k < Len(load.files)
          THEN /\ loads' = [loads EXCEPT ![j] = [load EXCEPT !.k = load.k + 1,
                                                             !.dimensions = dimensions]]
               /\ createObjectURL(1)
               /\ UNCHANGED <<fileDimensions, isLoadingDimensions>>
          ELSE /\ loads' = WithoutLoad(j)
               /\ fileDimensions' = dimensions
               /\ isLoadingDimensions' = FALSE
               /\ UNCHANGED objectURLs
  /\ UNCHANGED <<outerVars, settingVars, clientVars, batchVars, serverVars>>

\* The batches, the selections and the dimension loads of both components,
\* with the object URLs they create counted.
InitUrls == InitOf("urls", {"resizer", "converter"}, {NoCall})
NextUrls == ClientNext \/ handleFileSelect_dimensions
SpecUrls == InitUrls /\ [][NextUrls]_vars

InitDims == InitOf("dims", {"resizer", "converter"}, {NoCall})
NextDims == ClientNext \/ handleFileSelect_dimensions
SpecDims == InitDims /\ [][NextDims]_vars

\* The selections, removals and dimension loads of the resizer on their own.
InitCache == InitOf("cache", {"resizer"}, {NoCall})
NextCache ==
  \/ Resizer_handleFileSelect
  \/ Resizer_handleDrop
  \/ removeFile
  \/ clearAllFiles
  \/ handleFileSelect_dimensions
SpecCache == InitCache /\ [][NextCache]_vars


Spec == Init /\ [][Next]_vars

\* ================================================================ properties
\* The transform of file f succeeds in every venue.
Succeeds(f) == Decodes(f) /\ Encodes(f)

\* The output name the venue computes for file f of the running batch.
OutputName(f) ==
  IF venue = "resizer" THEN ResizerFileName(FileName(f), bFormat)
  ELSE WebpFileName(FileName(f))

\* The positions of the Success entries of a list of results, in order.
SuccessIdx(list) ==
  SelectSeq([k \in 1..Len(list) |-> k], LAMBDA k : IsSuccess(list[k]))

\* p <= q for two fractions <<num, den>>.
Leq(p, q) == p[1] * q[2] <= q[1] * p[2]

Max(S) == CHOOSE m \in S : \A k \in S : k <= m

\* One entry per file, the i-th entry naming the i-th file.
InOrder(list, files) ==
  /\ Len(list) = Len(files)
  /\ \A k \in 1..Len(list) : list[k].originalName = FileName(files[k])

IsJson(r) == r # Null /\ r[1].kind = "json"

\* The BatchResult the last invocation published is still displayed.
Published == IsClient /\ outcome = "result" /\ result # Null

\* C1: every BatchResult, of handleResize and handleConvert in both download
\* modes and of POST /convert, has successfulConversions + failedConversions
\* equal to totalFiles, and totalFiles equal to the number of files submitted.
C1_CountsAddUp ==
  /\ (IsClient /\ result # Null) =>
       result[1].successfulConversions + result[1].failedConversions
         = result[1].totalFiles
  /\ Published => result[1].totalFiles = Len(bFiles)
  /\ (venue = "convert" /\ IsJson(response)) =>
       /\ response[1].successfulConversions + response[1].failedConversions
            = response[1].totalFiles
       /\ response[1].totalFiles = Len(reqFiles)

C1_Witness ==
  /\ Published
  /\ result[1].totalFiles = 3
  /\ result[1].successfulConversions = 1
  /\ result[1].failedConversions = 2

\* C2: every BatchResult holds exactly one entry per submitted file, the i-th
\* entry carrying the name of the i-th file; on POST /convert whatever the
\* order in which the conversions settle.
C2_ResultsInSubmissionOrder ==
  /\ Published => InOrder(result[1].results, bFiles)
  /\ (venue = "convert" /\ IsJson(response)) => InOrder(response[1].results, reqFiles)

C2_Witness ==
  /\ venue = "convert"
  /\ IsJson(response)
  /\ settled = <<3, 1, 2>>

\* C3: an item whose transform fails is recorded as a Failure entry carrying
\* the file's name, every later item is still processed, and the failure
\* never becomes a top-level error: a batch ends with all items processed,
\* with as many successes as files that transform and as many failures as
\* files that do not (3 files, one undecodable: 3 / 2 / 1); the only
\* top-level error is the one of the archive, after the last item.
C3_ItemFailureIsLocal ==
  IsClient =>
    /\ \A k \in 1..Len(results) :
         IF Succeeds(bFiles[k])
         THEN IsSuccess(results[k])
         ELSE /\ IsFailure(results[k])
              /\ results[k].originalName = FileName(bFiles[k])
    /\ pc = "item" => Len(results) = idx - 1
    /\ outcome \in {"result", "error"} => Len(results) = Len(bFiles)
    /\ outcome = "error" => bMode = "zip"
    /\ Published =>
         /\ result[1].successfulConversions
              = Cardinality({k \in 1..Len(bFiles) : Succeeds(bFiles[k])})
         /\ result[1].failedConversions
              = Cardinality({k \in 1..Len(bFiles) : ~Succeeds(bFiles[k])})

C3_Witness ==
  /\ Published
  /\ bFiles = <<"f1", "f2", "f4">>
  /\ result[1].totalFiles = 3
  /\ result[1].successfulConversions = 2
  /\ result[1].failedConversions = 1
  /\ IsFailure(result[1].results[1])
  /\ result[1].results[1].originalName = <<"b", ".", "png">>

\* C4 as stated: in every venue at most one transform is in flight.
C4_AtMostOneInFlight == Cardinality(inFlight) <= 1

\* C4 as amended: handleResize and handleConvert have exactly the transform
\* of the current item in flight while they await it and none otherwise; the
\* server routes have the conversions of all files that have not settled in
\* flight at once.
C4_SequentialClientParallelServer ==
  /\ IsClient => inFlight = (IF pc = "item" THEN {idx} ELSE {})
  /\ (~IsClient /\ spc = "converting") =>
       inFlight = {k \in 1..Len(reqFiles) : slots[k] = Null}

C4_Witness ==
  /\ IsClient
  /\ pc = "item"
  /\ Len(bFiles) = 3
  /\ idx = 2
  /\ inFlight = {2}

\* C5: while a batch is in progress the progress counter never decreases, it
\* is (items completed) / totalFiles * 100 after each item, and it is reset
\* to 0 when the batch completes, whatever the user does meanwhile.
C5_ProgressMonotonic ==
  [][/\ (inProgress /\ inProgress') => Leq(progress, progress')
     /\ (inProgress /\ inProgress' /\ results' # results) =>
          progress' = Percent(Len(results'), Len(bFiles))
     /\ (inProgress /\ ~inProgress') => progress' = Zero]_vars

\* C6: in individual mode the downloads of a batch are, in submission order,
\* one per Success item under the item's output name, none for a Failure
\* item; their number is successfulConversions.
C6_OneDownloadPerSuccess ==
  (IsClient /\ bMode = "individual") =>
    LET si == SuccessIdx(results)
    IN /\ Len(downloads) = Len(si)
       /\ Len(downloads) = successfulConversions
       /\ \A j \in 1..Len(si) :
            /\ downloads[j] = FileDownload(OutputName(bFiles[si[j]]), bFiles[si[j]])
            /\ downloads[j].name = results[si[j]].fileName

C6_Witness ==
  /\ Published
  /\ bMode = "individual"
  /\ Len(downloads) = 2
  /\ result[1].failedConversions = 1

\* The output names of the Success items of the running batch.
SuccessNames ==
  {OutputName(bFiles[k]) : k \in {j \in 1..Len(results) : IsSuccess(results[j])}}

\* C7 as stated: a ZIP batch that ends with a result has triggered one
\* download, the archive, which holds as many entries as there are Success
\* items, named by their output names.
C7_EntryPerSuccess ==
  (IsClient /\ bMode = "zip" /\ outcome = "result") =>
    /\ Len(downloads) = 1
    /\ downloads[1].kind = "zip"
    /\ DOMAIN downloads[1].entries = SuccessNames
    /\ Cardinality(DOMAIN downloads[1].entries) = successfulConversions

\* C7 as amended: the archive holds one entry per distinct output name of the
\* Success items, so as many entries as Success items when no two of them
\* share an output name.
C7_EntryPerOutputName ==
  (IsClient /\ bMode = "zip" /\ outcome = "result") =>
    /\ Len(downloads) = 1
    /\ downloads[1].kind = "zip"
    /\ DOMAIN downloads[1].entries = SuccessNames
    /\ Cardinality(SuccessNames) = successfulConversions =>
         Cardinality(DOMAIN downloads[1].entries) = successfulConversions

C7_Witness ==
  /\ IsClient
  /\ bMode = "zip"
  /\ outcome = "result"
  /\ successfulConversions = 2
  /\ Len(downloads) = 1
  /\ Cardinality(DOMAIN downloads[1].entries) = 2

\* C8: in ZIP mode the archive holds, under each output name, the data of
\* the last Success item with that name; the items keep their computed names
\* and every item that transforms is reported as Success.
C8_LaterDuplicateOverwrites ==
  (IsClient /\ bMode = "zip") =>
    /\ \A n \in DOMAIN zip :
         LET ks == {k \in 1..Len(results) :
                      IsSuccess(results[k]) /\ results[k].fileName = n}
         IN ks # {} /\ zip[n] = bFiles[Max(ks)]
    /\ \A k \in 1..Len(results) :
         Succeeds(bFiles[k]) =>
           /\ IsSuccess(results[k])
           /\ results[k].fileName = OutputName(bFiles[k])
           /\ results[k].fileName \in DOMAIN zip
    /\ (outcome = "result") => downloads[1].entries = zip

C8_Witness ==
  /\ Published
  /\ bMode = "zip"
  /\ bFiles = <<"f2", "f4">>
  /\ result[1].successfulConversions = 2
  /\ DOMAIN downloads[1].entries = {<<"a", ".", "webp">>}
  /\ downloads[1].entries[<<"a", ".", "webp">>] = "f4"

\* C9: when the archive cannot be generated the run ends with error set to
\* the failure's message, publishes no BatchResult, triggers no download and
\* leaves the results and the failure count as they were; afterwards the
\* in-progress flag is false.
C9_ArchiveFailureIsFatal ==
  /\ [](outcome = "error" => (~inProgress /\ pc = "idle" /\ downloads = <<>>))
  /\ [][(pc = "zip" /\ outcome' = "error") =>
          /\ error' = Some(Message("generateAsync rejected", <<>>))
          /\ result' = result
          /\ results' = results
          /\ failedConversions' = failedConversions
          /\ ~inProgress']_vars

C9_Witness ==
  /\ IsClient
  /\ outcome = "error"
  /\ error = Some(Message("generateAsync rejected", <<>>))
  /\ failedConversions = 0
  /\ result = Null
  /\ ~inProgress

\* C10 as stated: an invocation with no file gives a BatchResult with
\* totalFiles = 0 and no download.
C10_EmptyGivesEmptyResult ==
  /\ (IsClient /\ outcome = "noop") =>
       (result # Null /\ result[1].totalFiles = 0 /\ downloads = <<>>)
  /\ (venue = "convert" /\ spc = "responded" /\ reqFiles = <<>>
        /\ response[1].status # 500) =>
       (IsJson(response) /\ response[1].totalFiles = 0)

\* C10 as amended: an invocation of handleResize or handleConvert with no
\* file returns at once: it changes no state of the component, publishes no
\* BatchResult, starts no transform and triggers no download; a server route
\* answers a request without files with status 400 and converts nothing.
C10_EmptyIsNoOp ==
  /\ [][(IsClient /\ batches' # batches /\ selectedFiles = <<>>) =>
          /\ UNCHANGED clientVars
          /\ outcome' = "noop"
          /\ inFlight' = {}
          /\ downloads' = <<>>]_vars
  /\ []((~IsClient /\ spc = "responded" /\ reqFiles = <<>>
           /\ response[1].status # 500) =>
          /\ response[1] = BadRequest("Files not found", <<>>)
          /\ slots = <<>>
          /\ inFlight = {})

C10_Witness ==
  /\ IsClient
  /\ outcome = "noop"
  /\ selectedFiles = <<>>
  /\ result = Null

\* ------------------------------------------------------------------- C11
\* The positions of a list whose file has a type outside `allowed`.
Offending(files, allowed) ==
  {k \in 1..Len(files) : FileType(files[k]) \notin allowed}

\* The form data of the request was read (the route did not end in its
\* outer catch before it looked at the files).
FormRead == response # Some(ServerError("formData rejected"))

\* C11: on both routes a request that carries no file, or at least one file
\* whose type is not JPEG or PNG, is answered 400; the message names every
\* offending file (each once, in the order of the request) and no file of
\* the request, the valid ones included, is converted.
C11_InvalidRequestRejectedWhole ==
  (/\ ~IsClient
   /\ spc # "wait"
   /\ FormRead
   /\ (Len(reqFiles) = 0 \/ Offending(reqFiles, {"image/jpeg", "image/jpg", "image/png"}) # {}))
  => LET bad == Offending(reqFiles, {"image/jpeg", "image/jpg", "image/png"})
         named == response[1].error.files
     IN /\ spc = "responded"
        /\ response[1].status = 400
        /\ response[1].kind = "error"
        /\ Len(named) = Cardinality(bad)
        /\ \A k \in bad : \E n \in 1..Len(named) : named[n] = FileName(reqFiles[k])
        /\ \A m, n \in 1..Len(named) :
             m < n => \E j, k \in bad :
                        /\ j < k
                        /\ named[m] = FileName(reqFiles[j])
                        /\ named[n] = FileName(reqFiles[k])
        /\ slots = <<>>
        /\ settled = <<>>
        /\ inFlight = {}
        /\ zip = EmptyZip

\* A request of one valid and two unsupported files was refused naming both.
C11_Witness ==
  /\ venue = "convertZip"
  /\ reqFiles = <<"f2", "f3", "f5">>
  /\ response = Some(BadRequest("Unsupported file formats",
                                <<FileName("f3"), FileName("f5")>>))
  /\ slots = <<>>

\* ------------------------------------------------------------------- C12
\* The request of /convert-zip passed the checks of the route.
ValidZipRequest ==
  /\ venue = "convertZip"
  /\ spc # "wait"
  /\ FormRead
  /\ Len(reqFiles) > 0
  /\ Offending(reqFiles, {"image/jpeg", "image/jpg", "image/png"}) = {}

\* The files whose conversion threw (Promise.all has resolved).
ZipFailures ==
  {k \in 1..Len(reqFiles) : ~(SharpAccepts(quality) /\ Succeeds(reqFiles[k]))}

\* C12: a valid request to /convert-zip reaches the generation of the
\* archive whatever the number of conversions that failed, and is answered
\* 200 with the archive unless generateAsync itself rejects; the archive
\* holds the output name of every file that was converted and of no file
\* that failed, so it is empty when every file failed.
C12_ZipDespiteFailures ==
  ValidZipRequest =>
    /\ spc = "converting" => response = Null
    /\ spc \in {"zip", "responded"} =>
         /\ \A k \in 1..Len(reqFiles) :
              (WebpFileName(FileName(reqFiles[k])) \in DOMAIN zip)
                <=> (\E j \in 1..Len(reqFiles) :
                       /\ j \notin ZipFailures
                       /\ WebpFileName(FileName(reqFiles[j]))
                            = WebpFileName(FileName(reqFiles[k])))
         /\ \A n \in DOMAIN zip :
              \E k \in 1..Len(reqFiles) :
                /\ k \notin ZipFailures
                /\ n = WebpFileName(FileName(reqFiles[k]))
                /\ zip[n] \in {reqFiles[j] : j \in (1..Len(reqFiles)) \ ZipFailures}
         /\ Cardinality(ZipFailures) = Len(reqFiles) => DOMAIN zip = {}
    /\ spc = "responded" =>
         \/ /\ response[1].status = 200
            /\ response[1].kind = "zip"
            /\ response[1].entries = zip
         \/ response = Some(ServerError("generateAsync rejected"))

\* Every file of a valid request failed and the answer is an empty archive.
C12_Witness ==
  /\ ValidZipRequest
  /\ Len(reqFiles) > 1
  /\ Cardinality(ZipFailures) = Len(reqFiles)
  /\ response # Null
  /\ response[1].kind = "zip"
  /\ response[1].entries = EmptyZip

\* ------------------------------------------------------------------- C13
\* C13: every quality and every scale percentage a transform or an encoder
\* is given is an integer from 1 to 100, in the components and in both
\* routes.
C13_EncoderParametersInRange ==
  \A k \in 1..Len(calls) :
    /\ calls[k].quality \in 1..100
    /\ calls[k].scale \in 1..100

\* ------------------------------------------------------------------- C14
\* The name without its extension: what precedes the last dot when at least
\* one character follows that dot, else the whole name.
Stem(name) ==
  LET dots == {i \in 1..Len(name) : name[i] = "."}
      last == CHOOSE i \in dots : \A j \in dots : j <= i
  IN IF dots = {} \/ last = Len(name) THEN name ELSE SubSeq(name, 1, last - 1)

\* C14: the output name of a file is its name without the extension plus
\* ".webp" when the target format is webp, and its name unchanged when the
\* target format is the original one, whatever dots the name holds.
C14_OutputNameLaw ==
  (arg.op = "fileName" /\ ret # Null) =>
    ret[1] = IF venue = "resizer" /\ arg.format = "original"
             THEN arg.name
             ELSE Stem(arg.name) \o <<".", "webp">>

\* ------------------------------------------------------------------- C15
\* x * percentage / 100 rounded to the nearest integer, half-way cases up.
RoundHalfUp(x, percentage) == (2 * x * percentage + 100) \div 200

Abs(n) == IF n < 0 THEN 0 - n ELSE n

\* r is an integer nearest to x * percentage / 100.
IsNearest(r, x, percentage) == 2 * Abs(100 * r - x * percentage) <= 100

\* C15 as stated: each new dimension is round(original * scalePercent / 100).
C15_ExactRounding ==
  (arg.op = "calculateNewDimensions" /\ ret # Null) =>
    /\ ret[1].width = RoundHalfUp(arg.width, arg.percentage)
    /\ ret[1].height = RoundHalfUp(arg.height, arg.percentage)

\* C15: each new dimension is computed from its own original dimension and
\* the percentage alone and is an integer nearest to original * percentage /
\* 100; it is the one rounded half up unless that value lies exactly
\* half-way between two integers, where the double product may fall below
\* the half and give the lower one.  1000 x 800 at 50 gives 500 x 400.
C15_NearestInteger ==
  (arg.op = "calculateNewDimensions" /\ ret # Null) =>
    /\ IsNearest(ret[1].width, arg.width, arg.percentage)
    /\ IsNearest(ret[1].height, arg.height, arg.percentage)
    /\ (arg.width * arg.percentage) % 100 # 50
         => ret[1].width = RoundHalfUp(arg.width, arg.percentage)
    /\ (arg.height * arg.percentage) % 100 # 50
         => ret[1].height = RoundHalfUp(arg.height, arg.percentage)
    /\ arg.width = arg.height => ret[1].width = ret[1].height
    /\ (arg.width = 1000 /\ arg.height = 800 /\ arg.percentage = 50)
         => ret[1] = [width |-> 500, height |-> 400]

\* A 1000 x 800 image at 50 percent was given 500 x 400.
C15_Witness ==
  /\ arg.op = "calculateNewDimensions"
  /\ arg.width = 1000
  /\ arg.height = 800
  /\ arg.percentage = 50
  /\ ret = Some([width |-> 500, height |-> 400])

\* ------------------------------------------------------------------- C16
\* The time t to second precision, ":" written as "-".
StampOf(t) ==
  <<"2024-01-01", "T", "00", "-", "00", "-", TwoDigits[(t \div 2) + 1]>>

ZipPrefix == IF venue = "resizer" THEN "resized-images" ELSE "webp-conversion"

\* C16 as stated: the name of every archive carries the time at which its
\* batch (its request) started.
C16_StampIsBatchStart ==
  /\ IsClient =>
       \A j \in 1..Len(downloads) :
         downloads[j].kind = "zip" =>
           downloads[j].name = ZipFileName(ZipPrefix, StampOf(startedAt))
  /\ (venue = "convertZip" /\ response # Null /\ response[1].kind = "zip") =>
       response[1].fileName = ZipFileName(ZipPrefix, StampOf(startedAt))

\* C16: the name of an archive carries the time, to second precision with
\* "-" for ":", that the clock shows in the step that follows the
\* generation of the archive, the step in which the archive is downloaded
\* or sent.
C16_StampIsFinalizationTime ==
  [][/\ (/\ IsClient
         /\ Len(downloads') = Len(downloads) + 1
         /\ downloads'[Len(downloads')].kind = "zip")
        => downloads'[Len(downloads')].name = ZipFileName(ZipPrefix, StampOf(now))
     /\ (/\ venue = "convertZip"
         /\ response = Null
         /\ response' # Null
         /\ response'[1].kind = "zip")
        => response'[1].fileName = ZipFileName(ZipPrefix, StampOf(now))]_vars

\* An archive of the resizer is named after a second later than the one in
\* which its batch started.
C16_Witness ==
  /\ venue = "resizer"
  /\ outcome = "result"
  /\ Len(downloads) = 1
  /\ downloads[1].kind = "zip"
  /\ downloads[1].name = ZipFileName("resized-images", StampOf(now))
  /\ StampOf(now) # StampOf(startedAt)

\* ------------------------------------------------------------------- C17
\* C17: an exception raised while item idx is processed shows as the
\* Failure entry of that item or as the top-level error of the batch, and a
\* batch in progress is waiting for something that settles.
C17_ExceptionsSurface ==
  /\ (IsClient /\ pc = "hung") =>
       \/ Len(results) >= idx /\ IsFailure(results[idx])
       \/ outcome = "error" /\ error # Null
  /\ (IsClient /\ inProgress) => pc \in {"item", "zip"}

\* ------------------------------------------------------------------- C18
\* A step of the running batch: the handler resumes after a transform or
\* after the generation of the archive.
BatchStep ==
  \/ handleResize_item
  \/ handleResize_zip
  \/ handleConvert_item
  \/ handleConvert_zip

\* C18: a batch that is in progress can always take its next step, whatever
\* the user has done meanwhile, so that it goes through every item and
\* clears the in-progress flag.
C18_BatchAlwaysProceeds ==
  (IsClient /\ inProgress) =>
    /\ ENABLED BatchStep
    /\ pc \in {"item", "zip"}
    /\ pc = "item" => idx \in 1..Len(bFiles) /\ Len(results) = idx - 1

\* ------------------------------------------------------------------- C19
\* The settings and the working set as the running batch captured them.
Captured == <<bFiles, bMode, bFormat, bQuality, bScale>>

\* What the batch has done so far follows from what it captured: every call
\* of the transform, every name and every delivery.
DoneAsCaptured ==
  /\ \A k \in 1..Len(calls) :
       calls[k] = [file |-> bFiles[k], quality |-> bQuality, scale |-> bScale,
                   format |-> bFormat]
  /\ \A k \in 1..Len(results) :
       /\ results[k].originalName = FileName(bFiles[k])
       /\ IsSuccess(results[k]) =>
            results[k].fileName =
              Stem(FileName(bFiles[k])) \o
                (IF venue = "converter" \/ bFormat = "webp" THEN <<".", "webp">>
                 ELSE <<".">> \o LastSegment(FileName(bFiles[k])))
  /\ \A j \in 1..Len(downloads) :
       downloads[j].kind = (IF bMode = "zip" THEN "zip" ELSE "file")
  /\ bMode = "individual" =>
       Len(downloads) = Cardinality({k \in 1..Len(results) : IsSuccess(results[k])})

\* C19: a batch works with the quality, the scale percentage, the output
\* format, the download mode and the list of files of the moment it started:
\* no step taken while it is in progress changes what it captured, and every
\* item is processed, named and delivered as captured, whatever the settings
\* and the working set have become meanwhile.
C19_ParametersFixedAtStart ==
  /\ [](IsClient => DoneAsCaptured)
  /\ [][/\ (IsClient /\ inProgress) => Captured' = Captured
        /\ (IsClient /\ ~inProgress /\ inProgress') =>
             Captured' = <<selectedFiles, downloadMode, outputFormat, quality,
                           resizeValue>>]_vars

\* The second item of a batch of the resizer is being processed while every
\* setting and the working set differ from what the batch captured.
C19_Witness ==
  /\ venue = "resizer"
  /\ pc = "item"
  /\ idx = 2
  /\ Len(calls) = 2
  /\ calls[2].scale = bScale
  /\ resizeValue # bScale
  /\ quality # bQuality
  /\ outputFormat # bFormat
  /\ downloadMode # bMode
  /\ selectedFiles # bFiles

\* ------------------------------------------------------------------- C20
\* The types the component of the venue accepts.
Accepted ==
  IF venue = "resizer"
  THEN {"image/jpeg", "image/jpg", "image/png", "image/webp", "image/gif"}
  ELSE {"image/jpeg", "image/jpg", "image/png"}

\* The lists a selection or a drop can deliver where the dimensions cache is
\* followed.
DimsSelections ==
  Pickable("dims")

\* A task that has just written the rejection message of handleFileSelect.
RejectionWritten ==
  /\ IsClient
  /\ error' # error
  /\ error' # Null
  /\ error'[1].message = "Unsupported file formats"

\* C20: a selection or a drop that holds a file of a type the component does
\* not accept sets error to a message that lists every such file, once each,
\* and changes nothing else: not the working set, the previous result, the
\* progress counter, the dimensions cache and its loading flag, nor the
\* running batch.  (A step that leaves error as it was either is no such
\* selection or repeats the message and changes nothing at all.)
C20_InvalidSelectionChangesErrorOnly ==
  [][\A files \in (IF RejectionWritten THEN DimsSelections ELSE {}) :
       (/\ Offending(files, Accepted) # {}
        /\ SelectFiles(files, Accepted))
       => /\ Len(error'[1].files) = Cardinality(Offending(files, Accepted))
          /\ \A k \in Offending(files, Accepted) :
               \E n \in 1..Len(error'[1].files) : error'[1].files[n] = FileName(files[k])
          /\ UNCHANGED <<selectedFiles, result, progress, fileDimensions,
                         isLoadingDimensions, loads, inProgress, downloadMode,
                         outputFormat, batchVars>>]_vars

\* A drop with the BMP was refused by the resizer while its batch was half
\* way and its cache held dimensions.
C20_Witness ==
  /\ venue = "resizer"
  /\ inProgress
  /\ progress # Zero
  /\ selectedFiles # <<>>
  /\ fileDimensions # NoDimensions
  /\ error = Some(Message("Unsupported file formats", <<FileName("f5")>>))

\* ------------------------------------------------------------------- C22
\* What the file list of the resizer shows under file f: "Loading
\* dimensions...", the entry the cache has under the name of f, or nothing.
ShownWith(loading, cache, f) ==
  IF loading THEN "loading"
  ELSE IF FileName(f) \in DOMAIN cache THEN cache[FileName(f)]
  ELSE "none"

Shown(f) == ShownWith(isLoadingDimensions, fileDimensions, f)

\* The file of the list that was probed last among those of name n whose
\* probe gave dimensions.
LastProbed(files, n) ==
  files[Max({k \in 1..Len(files) : FileName(files[k]) = n /\ Decodes(files[k])})]

\* No batch is running and no dimension load is pending.
Quiescent == IsClient /\ pc = "idle" /\ ~inProgress /\ loads = <<>>

\* C21: once the dimension loads and the batch have completed, no object URL
\* created to decode an image is left unrevoked.
C21_DecodeURLsReleased == (TracksURLs /\ Quiescent) => objectURLs = 0

\* C22: when the load of a selection finishes, the cache holds one entry per
\* name of a file whose probe gave dimensions and no other entry; the entry
\* of a name is the dimensions of the file of that name probed last, and
\* every file of the selection that is still the working set is shown with
\* the entry of its name.
C22_CacheKeyedByName ==
  [][\A j \in 1..Len(loads) :
       (venue = "resizer" /\ Len(loads') < Len(loads) /\ loads' = WithoutLoad(j)) =>
         LET files == loads[j].files
             probed == {k \in 1..Len(files) : Decodes(files[k])}
         IN /\ DOMAIN fileDimensions' = {FileName(files[k]) : k \in probed}
            /\ \A n \in DOMAIN fileDimensions' : fileDimensions'[n] = LastProbed(files, n)
            /\ selectedFiles' = files =>
                 \A k \in probed :
                   ShownWith(isLoadingDimensions', fileDimensions', files[k])
                     = LastProbed(files, FileName(files[k]))]_vars

\* Two files of one name are selected and loaded: the cache has the one
\* entry, with the dimensions of the second file.
C22_Witness ==
  /\ selectedFiles = <<"f2", "f6">>
  /\ ~isLoadingDimensions
  /\ loads = <<>>
  /\ DOMAIN fileDimensions = {FileName("f2")}
  /\ Shown("f2") = "f6"
  /\ Shown("f6") = "f6"

\* ------------------------------------------------------------------- C23
\* The files the picker opened by "Add More" can deliver (the button is
\* rendered when the working set is not empty; it clicks the file input).
AddMoreSelections ==
  IF IsClient /\ selectedFiles # <<>> /\ selectedFiles' # selectedFiles
  THEN {files \in Pickable(scope) : Len(files) > 0 /\ Offending(files, Accepted) = {}}
  ELSE {}

\* C23: a selection of accepted files made while the working set is not
\* empty leaves the working set as it was, followed by the new files.
C23_AddMoreAppends ==
  [][\A files \in AddMoreSelections :
       SelectFiles(files, Accepted) => selectedFiles' = selectedFiles \o files]_vars

\* ------------------------------------------------------------------- C25
\* The steps of the loops that own the two values: a step of the for loop of
\* handleResize / handleConvert (the handler is entered, a transform settles,
\* the archive is generated, the handler returns), and the step that ends a
\* dimension load.
BatchLoopStep == pc' # pc \/ idx' # idx \/ batches' # batches
LoadLoopStep == Len(loads') < Len(loads)

\* C24: while a batch is in progress the progress counter changes only in a
\* step of the batch loop, while a dimension load is pending the dimensions
\* cache changes only in the step that ends a load, and no two dimension loads
\* are pending at once.
C24_SingleWriter ==
  [][/\ (IsClient /\ inProgress /\ progress' # progress) => BatchLoopStep
     /\ (venue = "resizer" /\ loads # <<>> /\ fileDimensions' # fileDimensions)
          => LoadLoopStep
     /\ Len(loads') <= 1]_vars

\* Its parts: the counter, the cache, and the number of loads.
C24_ProgressPart ==
  [][(IsClient /\ inProgress /\ progress' # progress) => BatchLoopStep]_vars
C24_CachePart ==
  [][(venue = "resizer" /\ loads # <<>> /\ fileDimensions' # fileDimensions)
        => LoadLoopStep]_vars
C24_LoadsPart == Len(loads) <= 1

\* C25: in the resizer, whenever isLoadingDimensions is false, no dimension
\* load is pending and every key of the cache is the name of a file of the
\* working set.
C25_CacheFollowsWorkingSet ==
  (venue = "resizer" /\ ~isLoadingDimensions) =>
    /\ loads = <<>>
    /\ \A n \in DOMAIN fileDimensions :
         \E k \in 1..Len(selectedFiles) : FileName(selectedFiles[k]) = n

\* ------------------------------------------------------------------- C26
\* selectedFiles after the step holds only files of the running batch.
WorkingSetWithinBatch ==
  \A k \in 1..Len(selectedFiles') : \E j \in 1..Len(bFiles) : bFiles[j] = selectedFiles'[k]

\* C26: a step that publishes a BatchResult does so for a working set that no
\* selection or drop has replaced since the batch started: every file of the
\* working set is a file of the batch (files removed one by one apart).
C26_NoResultForReplacedWorkingSet ==
  [][(IsClient /\ result' # Null /\ result' # result) => WorkingSetWithinBatch]_vars

\* ------------------------------------------------------------------- C27
\* C27: when the last batch of the component ended with a top-level error
\* and that error is still displayed, no BatchResult is displayed with it.
C27_NoResultBesideFatalError ==
  (IsClient /\ ~inProgress /\ outcome = "error" /\ error # Null) => result = Null

\* ------------------------------------------------------------------- C28
\* The archive /convert-zip holds when the conversions of the first k files
\* settle one after the other in the order of submission.
RECURSIVE InOrderZip(_, _, _)
InOrderZip(files, q, k) ==
  IF k = 0 THEN EmptyZip
  ELSE ZipEntry(InOrderZip(files, q, k - 1), Converted(files[k], q), files[k])

\* C28: once every conversion of a valid request to /convert-zip has
\* settled, the entries of the archive and the data under each entry name
\* are those of the run in which the conversions settle in submission
\* order, whatever the order in which they did settle.
C28_ArchiveIndependentOfSettlementOrder ==
  (ValidZipRequest /\ spc \in {"zip", "responded"}) =>
    zip = InOrderZip(reqFiles, quality, Len(reqFiles))

\* ------------------------------------------------------------------- C30
\* C30: in the components the progress counter is 0 whenever no batch is in
\* progress, and it is not 0 only while a batch is in progress whose first
\* item has settled (the loop is past its first item or awaits the archive).
C30_ProgressOnlyDuringBatch ==
  IsClient =>
    /\ ~inProgress => progress = Zero
    /\ progress # Zero =>
         /\ inProgress
         /\ pc # "idle"
         /\ idx > 1 \/ pc = "zip"

\* A batch of two files or more has ended with a top-level error: the handler
\* had shown 100% while it awaited the archive, and the counter is back at 0.
C30_Witness ==
  /\ IsClient
  /\ outcome = "error"
  /\ Len(bFiles) > 1
  /\ ~inProgress
  /\ progress = Zero

\* ------------------------------------------------------------------- C29
\* C29: a batch is started only when no batch of the component is in
\* progress and no invocation of the handler is suspended, so the steps of
\* two batches never interleave; the flag is set exactly while an invocation
\* is suspended.
C29_OneBatchAtATime ==
  [][/\ batches' # batches => (~inProgress /\ pc = "idle")
     /\ IsClient => (inProgress' <=> pc' # "idle")]_vars

\* A second batch is past its first item; the first one has run to its end.
C29_Witness ==
  /\ IsClient
  /\ batches = 2
  /\ inProgress
  /\ pc = "item"
  /\ idx > 1

====
